---- MODULE Spec2Model ----
(***************************************************************************)
(* Model of hmmlearn/monitors.py: the convergence monitors of the EM loop. *)
(*                                                                         *)
(* One instance of every concrete monitor class is built for each value of *)
(* ``verbose``, all with the same ``tol`` and ``n_iter``, and all are fed  *)
(* the same calls.  Python values that are not numbers are written as      *)
(* strings: "True", "False", "None", "nan", the empty deque "deque([])",   *)
(* and a raised exception by the name of its class.  Log probabilities and *)
(* tolerances are Python numbers written as integers in units of 1/unit:   *)
(* a dense grid of small whole numbers (unit = 1) and the values of the    *)
(* documented examples in ten-thousandths or in tenths.  The true          *)
(* division of RelativeMonitor is kept exact as a fraction.                *)
(***************************************************************************)
EXTENDS Integers, Sequences, FiniteSets, TLC

\* ---------------------------------------------------------------- bounds
MaxCalls == 3
MaxVal == 1
MaxTol == 1
MaxNIter == 3

LogProbs == (0 - MaxVal)..MaxVal
Tols == (0 - MaxTol)..MaxTol
NIters == (0 - 1)..MaxNIter

\* the documented examples.  In ten-thousandths: [5.0, 5.0009] with tol 0.001
\* and [5.0, 6.0] with tol 0.5.  In tenths: [10.0, 10.5] with tol 0.1, 3.0
\* with tol 2.5, and a negative log probability.
Examples ==
    {[unit |-> 10000, tols |-> {10, 5000},
      logprobs |-> {50000, 50009, 60000}],
     [unit |-> 10, tols |-> {1, 25},
      logprobs |-> {0 - 100, 30, 100, 105}]}
ExampleNIters == {1, MaxNIter}

\* ------------------------------------------------------ program constants
\* deque(maxlen=2)
HistoryMaxLen == 2

Classes == {"ConvergenceMonitor", "RelativeMonitor", "ThresholdMonitor"}
Monitors == Classes \X BOOLEAN

VARIABLES
    mon,       \* mon[id]: the fields of monitor id (vars(self) and its class)
    stderr,    \* stderr[id]: the lines the last call of id printed
    result,    \* result[id]: what the last call, if it was ``converged``, gave
    op,        \* the name of the last call ("__init__" at first)
    prev,      \* prev[id]: the fields of monitor id before the last call
    exc,       \* exc[id]: the exception the last call of id raised, or "None"
    run,       \* the report calls since construction or the last _reset
    wasReset,  \* whether _reset was ever called
    args,      \* the tol and n_iter the monitors were constructed with
    unit       \* the numbers of this behaviour count units of 1/unit

vars == <<mon, stderr, result, op, prev, exc, run, wasReset, args, unit>>

\* ------------------------------------------------------- Python semantics
\* bool(x) of the values a monitor handles
Truthy(x) == x = "True"

\* x == y, x < y, x >= y on numbers, as Python bools
PyBool(b) == IF b THEN "True" ELSE "False"

\* a or b: a when a is truthy, otherwise whatever b evaluates to
PyOr(a, b) == IF Truthy(a) THEN a ELSE b

\* a and b: a when a is falsy, otherwise whatever b evaluates to
PyAnd(a, b) == IF Truthy(a) THEN b ELSE a

\* a deque used as a value: truthy exactly when it is not empty
DequeValue(d) == IF Len(d) = 0 THEN "deque([])" ELSE "True"

\* deque.append on a deque(maxlen=HistoryMaxLen): the oldest item is
\* discarded from the left when the deque is full
DequeAppend(d, x) ==
    IF Len(d) = HistoryMaxLen THEN Append(Tail(d), x) ELSE Append(d, x)

\* (a / b) < t for true division with b # 0: the quotient keeps its sign
QuotientLess(a, b, t) ==
    IF b > 0 THEN a * unit < t * b ELSE a * unit > t * b

\* the exceptions a call can leave with
Exceptions == {"AttributeError", "ZeroDivisionError", "ValueError"}

\* ------------------------------------------------------------ _BaseMonitor
\* __init__ that raises a non-positive n_iter to 1
__init___clamping(cls, tol, n_iter, verbose) ==
    [cls |-> cls, tol |-> tol, n_iter |-> IF n_iter < 1 THEN 1 ELSE n_iter,
     verbose |-> verbose, history |-> <<>>, iter |-> 0]

__init__(cls, tol, n_iter, verbose) ==
    [cls |-> cls, tol |-> tol, n_iter |-> n_iter, verbose |-> verbose,
     history |-> <<>>, iter |-> 0]

\* _reset that forgets to clear the history
_reset_keep_history(self) ==
    [self EXCEPT !.iter = 0]

\* _reset that forgets to rewind the iteration counter
_reset_keep_iter(self) ==
    [self EXCEPT !.history = <<>>]

_reset(self) ==
    [self EXCEPT !.iter = 0, !.history = <<>>]

\* report that appends the value before it writes the progress line
report_append_first(self, logprob) ==
    IF self.verbose /\ Len(self.history) > 0
    THEN [self |-> [self EXCEPT !.history = DequeAppend(@, logprob)],
          exc |-> "AttributeError", printed |-> <<>>]
    ELSE [self |-> [self EXCEPT !.history = DequeAppend(@, logprob),
                                !.iter = @ + 1],
          exc |-> "None",
          printed |-> IF self.verbose
                      THEN <<[iter |-> self.iter + 1, logprob |-> logprob,
                              delta |-> "nan"]>>
                      ELSE <<>>]

\* The outcome of report: the monitor after the call, the exception that
\* left it ("None" when it returned) and the lines printed to sys.stderr.
report(self, logprob) ==
    IF self.verbose /\ Len(self.history) > 0
    THEN \* self.histor[-1]: no such attribute
         [self |-> self, exc |-> "AttributeError", printed |-> <<>>]
    ELSE [self |-> [self EXCEPT !.history = DequeAppend(@, logprob),
                                !.iter = @ + 1],
          exc |-> "None",
          printed |-> IF self.verbose
                      THEN <<[iter |-> self.iter + 1, logprob |-> logprob,
                              delta |-> "nan"]>>
                      ELSE <<>>]

\* ------------------------------------------------------ _check_convergence
\* ConvergenceMonitor that repeats the iteration cap in its criterion
ConvergenceMonitor_check_capped(self) ==
    PyBool(\/ self.iter = self.n_iter
           \/ (Len(self.history) = 2
               /\ self.history[2] - self.history[1] < self.tol))

\* ConvergenceMonitor with ``<=`` written for ``<``
ConvergenceMonitor_check_le(self) ==
    PyBool(Len(self.history) = 2
           /\ self.history[2] - self.history[1] <= self.tol)

ConvergenceMonitor_check_convergence(self) ==
    PyBool(Len(self.history) = 2
           /\ self.history[2] - self.history[1] < self.tol)

\* RelativeMonitor that treats a zero previous value as "no gain known"
RelativeMonitor_check_guarded(self) ==
    IF Len(self.history) # 2 THEN "False"
    ELSE LET previous == self.history[1]
             current == self.history[2]
         IN IF previous = 0 THEN "False"
            ELSE PyBool(QuotientLess(current - previous, previous, self.tol))

\* RelativeMonitor that unpacks the history before it checks its length
RelativeMonitor_check_unpacking(self) ==
    IF Len(self.history) # 2 THEN "ValueError"
    ELSE LET previous == self.history[1]
             current == self.history[2]
         IN IF previous = 0 THEN "ZeroDivisionError"
            ELSE PyBool(QuotientLess(current - previous, previous, self.tol))

\* RelativeMonitor that divides by abs(previous)
RelativeMonitor_check_abs(self) ==
    IF Len(self.history) # 2 THEN "False"
    ELSE LET previous == self.history[1]
             current == self.history[2]
         IN IF previous = 0 THEN "ZeroDivisionError"
            ELSE PyBool(QuotientLess(current - previous,
                                     IF previous < 0 THEN 0 - previous
                                     ELSE previous,
                                     self.tol))

RelativeMonitor_check_convergence(self) ==
    IF Len(self.history) # 2 THEN "False"
    ELSE LET previous == self.history[1]
             current == self.history[2]
         IN IF previous = 0 THEN "ZeroDivisionError"
            ELSE PyBool(QuotientLess(current - previous, previous, self.tol))

\* ThresholdMonitor that reads self.history[0]
ThresholdMonitor_check_oldest(self) ==
    PyAnd(DequeValue(self.history),
          PyBool(self.history[1] >= self.tol))

\* self.history and self.history[-1] >= self.tol
ThresholdMonitor_check_convergence(self) ==
    PyAnd(DequeValue(self.history),
          PyBool(self.history[Len(self.history)] >= self.tol))

_check_convergence(self) ==
    CASE self.cls = "ConvergenceMonitor" ->
             ConvergenceMonitor_check_convergence(self)
      [] self.cls = "RelativeMonitor" ->
             RelativeMonitor_check_convergence(self)
      [] self.cls = "ThresholdMonitor" ->
             ThresholdMonitor_check_convergence(self)

\* converged with ``>=`` written for ``==``
converged_sticky(self) ==
    PyOr(PyBool(self.iter >= self.n_iter), _check_convergence(self))

\* converged with ``and`` written for ``or``
converged_and(self) ==
    PyAnd(PyBool(self.iter = self.n_iter), _check_convergence(self))

\* self.iter == self.n_iter or self._check_convergence()
converged(self) ==
    PyOr(PyBool(self.iter = self.n_iter), _check_convergence(self))

\* ------------------------------------------------------------------ state
NoLines == [id \in Monitors |-> <<>>]
NoResult == [id \in Monitors |-> "None"]
NoException == [id \in Monitors |-> "None"]

\* the arguments a monitor can be constructed with, and their unit
Configurations ==
    ([tol : Tols, n_iter : NIters, unit : {1}])
    \cup UNION {[tol : e.tols, n_iter : ExampleNIters, unit : {e.unit}] :
                   e \in Examples}

\* the values report can be called with
Inputs ==
    IF unit = 1 THEN LogProbs
    ELSE (CHOOSE e \in Examples : e.unit = unit).logprobs

\* __init__ checks nothing and raises nothing
Init ==
    /\ \E c \in Configurations :
          /\ mon = [id \in Monitors |-> __init__(id[1], c.tol, c.n_iter, id[2])]
          /\ args = [tol |-> c.tol, n_iter |-> c.n_iter]
          /\ unit = c.unit
    /\ stderr = NoLines
    /\ result = NoResult
    /\ op = "__init__"
    /\ prev = mon
    /\ exc = NoException
    /\ run = <<>>
    /\ wasReset = FALSE

\* monitor.report(logprob) on every monitor
Report(logprob) ==
    /\ Len(run) < MaxCalls
    /\ mon' = [id \in Monitors |-> report(mon[id], logprob).self]
    /\ stderr' = [id \in Monitors |-> report(mon[id], logprob).printed]
    /\ result' = NoResult
    /\ op' = "report"
    /\ prev' = mon
    /\ exc' = [id \in Monitors |-> report(mon[id], logprob).exc]
    /\ run' = Append(run,
                [logprob |-> logprob,
                 exc |-> [id \in Monitors |-> report(mon[id], logprob).exc],
                 converged |-> [id \in Monitors |-> converged(mon'[id])]])
    /\ UNCHANGED <<wasReset, args, unit>>

\* monitor._reset() on every monitor
Reset ==
    /\ mon' = [id \in Monitors |-> _reset(mon[id])]
    /\ stderr' = NoLines
    /\ result' = NoResult
    /\ op' = "_reset"
    /\ prev' = mon
    /\ exc' = NoException
    /\ run' = <<>>
    /\ wasReset' = TRUE
    /\ UNCHANGED <<args, unit>>

\* a ``converged`` that takes the newest value out of the history to read it
Converged_popping ==
    /\ result' = [id \in Monitors |-> converged(mon[id])]
    /\ mon' = [id \in Monitors |->
                 [mon[id] EXCEPT !.history =
                     IF Len(@) = 0 THEN @ ELSE SubSeq(@, 1, Len(@) - 1)]]
    /\ stderr' = NoLines
    /\ op' = "converged"
    /\ prev' = mon
    /\ exc' = [id \in Monitors |->
                 IF converged(mon[id]) \in Exceptions
                 THEN converged(mon[id]) ELSE "None"]
    /\ UNCHANGED <<run, wasReset, args, unit>>

\* monitor.converged on every monitor
Converged ==
    /\ result' = [id \in Monitors |-> converged(mon[id])]
    /\ stderr' = NoLines
    /\ op' = "converged"
    /\ prev' = mon
    /\ exc' = [id \in Monitors |->
                 IF converged(mon[id]) \in Exceptions
                 THEN converged(mon[id]) ELSE "None"]
    /\ UNCHANGED <<mon, run, wasReset, args, unit>>

Next ==
    \/ \E logprob \in Inputs : Report(logprob)
    \/ Reset
    \/ Converged

Spec == Init /\ [][Next]_vars

\* ----------------------------------------------------------------- claims
Min(a, b) == IF a < b THEN a ELSE b

\* the values passed to report in this run, in call order
Reported == [k \in 1..Len(run) |-> run[k].logprob]

\* the last n items of sequence s
LastItems(s, n) == SubSeq(s, Len(s) - n + 1, Len(s))

Booleans == {"True", "False"}

\* C1: with no reset so far, the iteration counter of every monitor, verbose
\* or mute, equals the number of report calls made.
C1_IterCountsReportCalls ==
    ~wasReset => \A id \in Monitors : mon[id].iter = Len(run)

\* C2: whenever converged was queried, it gave True exactly when the
\* iteration counter equals n_iter or the class's criterion gave True on the
\* current history and tolerance.
C2_ConvergedIffCapOrPolicy ==
    \A id \in Monitors :
        result[id] # "None" =>
            ((result[id] = "True") <=>
                (mon[id].iter = mon[id].n_iter
                 \/ _check_convergence(mon[id]) = "True"))

\* each class queried True by its criterion alone, away from the cap
C2_Witness ==
    \A cls \in Classes :
        /\ result[<<cls, FALSE>>] = "True"
        /\ mon[<<cls, FALSE>>].iter # mon[<<cls, FALSE>>].n_iter

\* C3: after exactly n_iter >= 1 report calls (and no reset) every monitor,
\* whatever its class, verbosity, tolerance and values, is converged.
C3_CapReachedAfterNCalls ==
    \A id \in Monitors :
        (~wasReset /\ mon[id].n_iter >= 1 /\ Len(run) = mon[id].n_iter)
            => converged(mon[id]) = "True"

\* C4: the verbose and the mute monitor of a class, fed the same calls, have
\* the same history, counter and converged value, and the last report call
\* failed for both or for neither.
C4_VerboseObservationalOnly ==
    \A cls \in Classes :
        LET loud == <<cls, TRUE>>
            mute == <<cls, FALSE>>
        IN /\ mon[loud].history = mon[mute].history
           /\ mon[loud].iter = mon[mute].iter
           /\ converged(mon[loud]) = converged(mon[mute])
           /\ run # <<>> =>
                run[Len(run)].exc[loud] = run[Len(run)].exc[mute]

\* C5: the history of every monitor is the last min(n, 2) of the n values
\* reported in this run, oldest first; so it never holds more than 2.
C5_HistoryIsLastTwoReported ==
    \A id \in Monitors :
        /\ mon[id].history = LastItems(Reported, Min(Len(run), 2))
        /\ Len(mon[id].history) <= 2

\* C6: a RelativeMonitor whose history holds two values, the older being 0,
\* raises ZeroDivisionError from its criterion, and a converged query that
\* gets as far as the criterion (iter # n_iter) raises it to the caller.
C6_RelativeZeroPreviousRaises ==
    \A id \in Monitors :
        (/\ mon[id].cls = "RelativeMonitor"
         /\ Len(mon[id].history) = 2
         /\ mon[id].history[1] = 0)
            => /\ _check_convergence(mon[id]) = "ZeroDivisionError"
               /\ (result[id] # "None" /\ mon[id].iter # mon[id].n_iter)
                    => result[id] = "ZeroDivisionError"

\* converged queried on a RelativeMonitor holding [0, 1] raised
C6_Witness ==
    \E id \in Monitors :
        /\ mon[id].cls = "RelativeMonitor"
        /\ mon[id].history = <<0, 1>>
        /\ result[id] = "ZeroDivisionError"

\* C7: converged evaluates to True or False in every state, and to False
\* before any report call unless n_iter is 0.
C7_ConvergedIsBoolean ==
    \A id \in Monitors :
        /\ converged(mon[id]) \in Booleans
        /\ (run = <<>> /\ ~wasReset /\ mon[id].n_iter # 0)
              => converged(mon[id]) = "False"

\* C8: every _reset leaves the history empty and the counter 0, and leaves
\* tol, n_iter, verbose and the class as they were.
C8_ResetClears ==
    [][Reset =>
         \A id \in Monitors :
            /\ mon'[id].history = <<>>
            /\ mon'[id].iter = 0
            /\ mon'[id].tol = mon[id].tol
            /\ mon'[id].n_iter = mon[id].n_iter
            /\ mon'[id].verbose = mon[id].verbose
            /\ mon'[id].cls = mon[id].cls]_vars

\* monitors that held two values have just been reset
C8_Witness ==
    /\ op = "_reset"
    /\ \A id \in Monitors :
          /\ ~mon[id].verbose => Len(prev[id].history) = 2 /\ prev[id].iter > 2
          /\ mon[id].history = <<>> /\ mon[id].iter = 0

\* the monitor id as it was constructed
Constructed(id) ==
    __init__(mon[id].cls, mon[id].tol, mon[id].n_iter, mon[id].verbose)

\* the monitor self after report was called with each of values in turn
RECURSIVE AfterReports(_, _)
AfterReports(self, values) ==
    IF values = <<>> THEN self
    ELSE AfterReports(report(self, Head(values)).self, Tail(values))

\* converged after the k-th report of the original run of id on the values
\* of this run: the run that starts at construction
OriginalConverged(id, k) ==
    converged(AfterReports(Constructed(id), SubSeq(Reported, 1, k)))

\* C9: in a run after _reset, converged after each report is what it is
\* after that report when the same values are run from construction.
C9_ReplayReproducesConverged ==
    wasReset =>
        \A k \in 1..Len(run) : \A id \in Monitors :
            run[k].converged[id] = OriginalConverged(id, k)

\* three or more reports replayed after _reset, converged not constant
\* along them
C9_Witness ==
    /\ wasReset
    /\ Len(run) >= 3
    /\ \E id \in Monitors, j, k \in 1..Len(run) :
          run[j].converged[id] = "True" /\ run[k].converged[id] = "False"

\* C10: a converged query leaves every field of every monitor as it was, and
\* a query that directly follows a query gives the same values.
C10_ConvergedIsPure ==
    [][Converged =>
         /\ mon' = mon
         /\ (result # NoResult => result' = result)]_vars

\* converged was queried on monitors that have taken values
C10_Witness ==
    /\ op = "converged"
    /\ \E id \in Monitors : Len(mon[id].history) = 2

\* the value the last report call was given
LastLogProb == run[Len(run)].logprob

\* C11 as stated: constructing a monitor with n_iter <= 0 raises.
C11_NonPositiveRejected ==
    \A id \in Monitors :
        (op = "__init__" /\ args.n_iter <= 0) => exc[id] # "None"

\* C11 as amended: construction validates nothing; it raises for no n_iter,
\* 0 and negative included, and the monitor keeps the tol and n_iter given
\* and starts with an empty history and iter 0.
C11_NonPositiveAccepted ==
    \A id \in Monitors :
        /\ mon[id].n_iter = args.n_iter
        /\ mon[id].tol = args.tol
        /\ op = "__init__" =>
              /\ exc[id] = "None"
              /\ mon[id].history = <<>>
              /\ mon[id].iter = 0

\* a monitor built with a non-positive n_iter has taken two reports
C11_Witness ==
    /\ args.n_iter <= 0
    /\ op = "report"
    /\ \E id \in Monitors :
          exc[id] = "None" /\ mon[id].n_iter <= 0 /\ mon[id].iter = 2

\* C12: every report call of a verbose monitor prints exactly one line, with
\* the 1-based iteration number (iter after the call) and with delta the
\* value minus the newest history item before the call, nan if there was none.
C12_EveryVerboseReportPrints ==
    \A id \in Monitors :
        (mon[id].verbose /\ op = "report") =>
            /\ Len(stderr[id]) = 1
            /\ stderr[id][1].iter = prev[id].iter + 1
            /\ stderr[id][1].iter = mon[id].iter
            /\ stderr[id][1].logprob = LastLogProb
            /\ stderr[id][1].delta =
                 IF prev[id].history = <<>> THEN "nan"
                 ELSE LastLogProb - prev[id].history[Len(prev[id].history)]

\* the monitors of class cls
OfClass(cls) == {id \in Monitors : mon[id].cls = cls}

\* converged was just queried on id and got past the iteration cap
QueriedPolicy(id) == op = "converged" /\ mon[id].iter # mon[id].n_iter

C14_RelativeGainPolicy ==
    \A id \in OfClass("RelativeMonitor") :
        LET h == mon[id].history
            tol == mon[id].tol
            held == _check_convergence(mon[id])
        IN /\ Len(h) < 2 => held = "False"
           /\ (Len(h) = 2 /\ h[1] # 0) =>
                /\ held \in Booleans
                /\ (held = "True") <=>
                      \/ h[1] > 0 /\ (h[2] - h[1]) * unit < tol * h[1]
                      \/ h[1] < 0 /\ (h[2] - h[1]) * unit > tol * h[1]
                /\ (h[1] < 0 /\ h[2] > h[1] /\ tol >= 0) => held = "True"
                /\ (unit = 10 /\ h = <<100, 105>> /\ tol = 1) => held = "True"
                /\ QueriedPolicy(id) => result[id] = held

\* converged queried on a RelativeMonitor holding [10.0, 10.5] with tol 0.1
\* gave True
C14_Witness ==
    \E id \in OfClass("RelativeMonitor") :
        /\ unit = 10
        /\ mon[id].history = <<100, 105>>
        /\ mon[id].tol = 1
        /\ QueriedPolicy(id)
        /\ result[id] = "True"

\* C15: the criterion of ThresholdMonitor holds exactly when the history is
\* not empty and its newest value >= tol; with one value it gives True or
\* False, 3.0 with tol 2.5 holds, and the older value makes no difference.
C15_ThresholdPolicy ==
    \A id \in OfClass("ThresholdMonitor") :
        LET h == mon[id].history
            tol == mon[id].tol
            held == _check_convergence(mon[id])
        IN /\ (held = "True") <=> (Len(h) >= 1 /\ h[Len(h)] >= tol)
           /\ Len(h) >= 1 => held \in Booleans
           /\ (unit = 10 /\ Len(h) >= 1 /\ h[Len(h)] = 30 /\ tol = 25)
                 => held = "True"
           /\ Len(h) = 2 =>
                \A older \in Inputs :
                    _check_convergence(
                        [mon[id] EXCEPT !.history = <<older, h[2]>>]) = held
           /\ QueriedPolicy(id) => result[id] = held

\* converged queried on a ThresholdMonitor with tol 2.5 whose only value is
\* 3.0 gave True
C15_Witness ==
    \E id \in OfClass("ThresholdMonitor") :
        /\ unit = 10
        /\ mon[id].history = <<30>>
        /\ mon[id].tol = 25
        /\ QueriedPolicy(id)
        /\ result[id] = "True"

\* C16: with fewer than two values in the history, converged raises nothing,
\* for every class and every tol, zero and negative included.
C16_FewValuesNeverRaise ==
    \A id \in Monitors :
        Len(mon[id].history) < 2 =>
            /\ converged(mon[id]) \notin Exceptions
            /\ _check_convergence(mon[id]) \notin Exceptions
            /\ op = "converged" =>
                  exc[id] = "None" /\ result[id] \notin Exceptions

\* converged was queried, with a negative tol, on monitors that hold one
\* value each, and raised for none
C16_Witness ==
    /\ op = "converged"
    /\ args.tol < 0
    /\ \A id \in Monitors :
          Len(mon[id].history) = 1 /\ mon[id].iter # mon[id].n_iter
          /\ exc[id] = "None"

\* C17: a report call that raises leaves history and iter as they were, and
\* one that returns has appended the value and added one to iter; no call
\* does one without the other.
C17_FailedReportChangesNothing ==
    \A id \in Monitors :
        op = "report" =>
            IF exc[id] # "None"
            THEN /\ mon[id].history = prev[id].history
                 /\ mon[id].iter = prev[id].iter
            ELSE /\ mon[id].history =
                        DequeAppend(prev[id].history, LastLogProb)
                 /\ mon[id].iter = prev[id].iter + 1

\* a report call of a verbose monitor has just raised
C17_Witness ==
    /\ op = "report"
    /\ \E id \in Monitors :
          /\ mon[id].verbose
          /\ exc[id] = "AttributeError"
          /\ mon[id].history = <<run[1].logprob>>
          /\ mon[id].iter = 1
          /\ Len(run) = 3

\* C18: a report call made when converged was True raises nothing, appends
\* the value (discarding the oldest of two) and adds one to iter.
C18_ReportAfterConverged ==
    \A id \in Monitors :
        (op = "report" /\ converged(prev[id]) = "True") =>
            /\ exc[id] = "None"
            /\ mon[id].history = DequeAppend(prev[id].history, LastLogProb)
            /\ mon[id].iter = prev[id].iter + 1

\* C19: monitors of different classes with the same verbose have the same
\* history and iter, and their last call raised for all or none when it was
\* report or _reset; and the criterion of every class gives the same value
\* whatever iter and n_iter are put beside the same history and tol.
C19_ClassesDifferInCriterionOnly ==
    /\ \A verbose \in BOOLEAN : \A c1, c2 \in Classes :
          /\ mon[<<c1, verbose>>].history = mon[<<c2, verbose>>].history
          /\ mon[<<c1, verbose>>].iter = mon[<<c2, verbose>>].iter
          /\ op # "converged" => exc[<<c1, verbose>>] = exc[<<c2, verbose>>]
    /\ \A id \in Monitors : \A iter \in 0..(MaxCalls + 1), n_iter \in NIters :
          _check_convergence(
              [mon[id] EXCEPT !.iter = iter, !.n_iter = n_iter])
            = _check_convergence(mon[id])

\* after a _reset and three reports the criteria of two classes disagree on
\* the same history
C19_Witness ==
    /\ wasReset
    /\ op = "report"
    /\ Len(run) = 3
    /\ mon[<<"ConvergenceMonitor", FALSE>>].history
         = mon[<<"ThresholdMonitor", FALSE>>].history
    /\ _check_convergence(mon[<<"ConvergenceMonitor", FALSE>>])
         # _check_convergence(mon[<<"ThresholdMonitor", FALSE>>])

\* C20: once iter is above n_iter, converged is whatever the criterion gives:
\* the cap is an equality and does not hold past n_iter.
C20_CapNotSticky ==
    \A id \in Monitors :
        mon[id].iter > mon[id].n_iter =>
            /\ converged(mon[id]) = _check_convergence(mon[id])
            /\ op = "converged" => result[id] = _check_convergence(mon[id])

\* a monitor that was converged by the cap alone took one more report and
\* is not converged
C20_Witness ==
    /\ op = "report"
    /\ \E id \in Monitors :
          /\ exc[id] = "None"
          /\ prev[id].n_iter >= 1
          /\ prev[id].iter = prev[id].n_iter
          /\ _check_convergence(prev[id]) = "False"
          /\ converged(prev[id]) = "True"
          /\ mon[id].iter = mon[id].n_iter + 1
          /\ converged(mon[id]) = "False"

====
